---- MODULE Spec2Model ----
(***************************************************************************)
(* RewindPix: the App component (src/unnamed/part_000, App.tsx) and the    *)
(* ImageUploader component (src/components/ImageUploader.tsx) as a state   *)
(* machine.  One action per event handler or asynchronous continuation;    *)
(* each action applies all the state updates of its handler and the        *)
(* re-render that follows (mounting and unmounting of the two uploaders).  *)
(***************************************************************************)
EXTENDS Integers, Sequences, FiniteSets, Bags, TLC

\* ------------------------------------------------------------------ bounds
\* Pending fileToPhotoState promises (file reads started by the upload handlers).
MaxEncodes == 2
\* Pending preview readers of the mounted uploaders.
MaxPreviews == 1
\* Generation requests in flight.
MaxRequests == 2

\* ------------------------------------------------------------------ values
\* JavaScript null and undefined.
Null == "<null>"
Undefined == "<undefined>"

\* A PhotoState that is null (records compare only with records).
NullPhoto == [isNull |-> TRUE]

\* The two ImageUploader instances of the upload screen, by the slot they feed.
Slots == {"child", "adult"}

\* The event delivered to handleFileChange carries no file (an empty FileList).
NoFile == [name |-> "", type |-> "", b64 |-> ""]

\* Files the user can submit: name, declared type, and content (as base64).
Files ==
  { [name |-> "child.png", type |-> "image/png",  b64 |-> "iVBO"],
    [name |-> "anim.gif",  type |-> "image/gif",  b64 |-> "R0lG"],
    [name |-> "notes.txt", type |-> "text/plain", b64 |-> "aGk="],
    [name |-> "README",    type |-> "",           b64 |-> "aGk="] }

\* Base64 strings the generation service can resolve with.
Base64Results == {"abc123==", ""}

\* Values the generation service can reject with: Error objects with a message,
\* and a thrown value that is not an Error.
Rejections ==
  { [isError |-> TRUE,  message |-> "quota exceeded"],
    [isError |-> FALSE, message |-> "boom"] }

\* ------------------------------------------------------------------ strings
\* String.prototype.startsWith
StartsWith(s, p) == Len(s) >= Len(p) /\ SubSeq(s, 1, Len(p)) = p

\* String.prototype.split on a one-character separator: the sequence of the
\* pieces between the separators.
RECURSIVE SplitFrom(_, _, _, _)
SplitFrom(s, sep, start, i) ==
  IF i > Len(s) THEN << SubSeq(s, start, Len(s)) >>
  ELSE IF SubSeq(s, i, i) = sep
       THEN << SubSeq(s, start, i - 1) >> \o SplitFrom(s, sep, i + 1, i + 1)
       ELSE SplitFrom(s, sep, start, i + 1)

Split(s, sep) == SplitFrom(s, sep, 1, 1)

\* Truthiness of a string-or-null value.
Truthy(v) == v # Null /\ v # Undefined /\ v # ""

\* ------------------------------------------------------------------ state
VARIABLES
  childPhoto,      \* App: PhotoState of the childhood photo, or NullPhoto
  adultPhoto,      \* App: PhotoState of the recent photo, or NullPhoto
  generatedImage,  \* App: data URL of the result, or Null
  isLoading,       \* App: a generation request is awaited
  error,           \* App: the error message shown, or Null
  imagePreview,    \* ImageUploader, per slot: data URL of the preview, or Null
  fileName,        \* ImageUploader, per slot: name of the selected file, or ""
  encodes,         \* bag of pending fileToPhotoState promises: [slot, file]
  previews,        \* bag of pending preview readers of the mounted uploaders
  requests,        \* pending generateReunificationImage calls
  alert,           \* the message of the open alert dialog, or Null
  clicked          \* the download link being activated by link.click() (none: {})

appState == << childPhoto, adultPhoto, generatedImage, isLoading, error >>
uploaderState == << imagePreview, fileName, previews >>
vars == << childPhoto, adultPhoto, generatedImage, isLoading, error,
           imagePreview, fileName, encodes, previews, requests, alert, clicked >>

\* ------------------------------------------------------------------ file reading
\* FileReader.readAsDataURL: the data URL of a file's content. A file with an
\* empty type is labelled application/octet-stream.
readAsDataURL(file) ==
  "data:" \o (IF file.type = "" THEN "application/octet-stream" ELSE file.type)
          \o ";base64," \o file.b64

\* fileToPhotoState, on a successful read.
fileToPhotoState(file) ==
  LET parts == Split(readAsDataURL(file), ",")
  IN  [ base64Data |-> IF Len(parts) >= 2 THEN parts[2] ELSE Undefined,
        mimeType   |-> file.type ]

\* ------------------------------------------------------------------ render
\* Mutant: the upload screen stays rendered while loading.
UploadScreenShown_WhileLoading == ~Truthy(generatedImage)

\* The upload screen (both uploaders and the generate button) is rendered.
UploadScreenShown == ~Truthy(generatedImage) /\ ~isLoading

\* The loading indicator is rendered.
LoadingShown == isLoading

\* The error banner is rendered.
ErrorBannerShown == Truthy(error)

\* The result screen (image, Create Another, Download Image) is rendered.
ResultShown == Truthy(generatedImage) /\ ~isLoading

\* Mutant: the disabled flag forgets the childhood slot.
isGenerateDisabled_NoChild == adultPhoto = NullPhoto \/ isLoading

isGenerateDisabled == childPhoto = NullPhoto \/ adultPhoto = NullPhoto \/ isLoading

\* The generate button can be clicked: it is rendered and not disabled.
GenerateClickable == UploadScreenShown /\ ~isGenerateDisabled

\* A freshly mounted ImageUploader.
InitialPreview == [s \in Slots |-> Null]
InitialFileName == [s \in Slots |-> ""]

\* The uploaders exist only while the upload screen is rendered: when an action
\* hides it they unmount and their state and readers' callbacks are lost; they
\* mount again with fresh state.  Remounted is the uploaders' part of an
\* action that does not itself touch them.
Remounted ==
  IF UploadScreenShown'
  THEN UNCHANGED uploaderState
  ELSE /\ imagePreview' = InitialPreview
       /\ fileName' = InitialFileName
       /\ previews' = EmptyBag

\* window.alert is synchronous: while its dialog is open the event loop is
\* blocked, and no handler or continuation runs.  link.click() is synchronous
\* too: the browser takes the link (its activation starts the download) before
\* handleDownload returns.
Idle == alert = Null /\ clicked = {}

Remove(seq, i) == SubSeq(seq, 1, i - 1) \o SubSeq(seq, i + 1, Len(seq))

\* ------------------------------------------------------------------ initial state
Init ==
  /\ childPhoto = NullPhoto
  /\ adultPhoto = NullPhoto
  /\ generatedImage = Null
  /\ isLoading = FALSE
  /\ error = Null
  /\ imagePreview = InitialPreview
  /\ fileName = InitialFileName
  /\ encodes = EmptyBag
  /\ previews = EmptyBag
  /\ requests = << >>
  /\ alert = Null
  /\ clicked = {}

\* ------------------------------------------------------------------ ImageUploader
\* Mutant: handleFileChange sets the file name before it tests the type.
handleFileChange_NameFirst(s, file) ==
  /\ Idle
  /\ UploadScreenShown
  /\ IF file = NoFile
     THEN UNCHANGED << previews, fileName, encodes, alert >>
     ELSE /\ fileName' = [fileName EXCEPT ![s] = file.name]
          /\ IF StartsWith(file.type, "image/")
             THEN /\ BagCardinality(previews) < MaxPreviews
                  /\ BagCardinality(encodes) < MaxEncodes
                  /\ previews' = previews (+) SetToBag({[slot |-> s, file |-> file]})
                  /\ encodes' = encodes (+) SetToBag({[slot |-> s, file |-> file]})
                  /\ UNCHANGED alert
             ELSE /\ alert' = "Please select a valid image file."
                  /\ UNCHANGED << previews, encodes >>
  /\ UNCHANGED << appState, imagePreview, requests, clicked >>

\* handleFileChange of the uploader of slot s, with the first file of the event.
\* onImageUpload(file) is handleChildPhotoUpload or handleAdultPhotoUpload, which
\* starts fileToPhotoState(file) and awaits it.
handleFileChange(s, file) ==
  /\ Idle
  /\ UploadScreenShown
  /\ IF file = NoFile
     THEN UNCHANGED << previews, fileName, encodes, alert >>
     ELSE IF StartsWith(file.type, "image/")
          THEN /\ BagCardinality(previews) < MaxPreviews
               /\ BagCardinality(encodes) < MaxEncodes
               /\ previews' = previews (+) SetToBag({[slot |-> s, file |-> file]})
               /\ fileName' = [fileName EXCEPT ![s] = file.name]
               /\ encodes' = encodes (+) SetToBag({[slot |-> s, file |-> file]})
               /\ UNCHANGED alert
          ELSE /\ alert' = "Please select a valid image file."
               /\ UNCHANGED << previews, fileName, encodes >>
  /\ UNCHANGED << appState, imagePreview, requests, clicked >>

\* The hidden file input's onChange and the drop target's onDrop both call
\* handleFileChange with the event's file list; a file submitted either way
\* takes this one step.
SubmitFile == \E s \in Slots, file \in Files \cup {NoFile} : handleFileChange(s, file)

\* The user closes the alert dialog; alert() returns.
DismissAlert ==
  /\ alert # Null
  /\ alert' = Null
  /\ UNCHANGED << appState, uploaderState, encodes, requests, clicked >>

\* reader.onloadend of a preview reader: the result is the data URL, or null
\* when the read failed.
PreviewLoadEnd ==
  \E p \in BagToSet(previews), ok \in BOOLEAN :
    /\ Idle
    /\ imagePreview' = [imagePreview EXCEPT ![p.slot] =
                          IF ok THEN readAsDataURL(p.file) ELSE Null]
    /\ previews' = previews (-) SetToBag({p})
    /\ UNCHANGED << appState, fileName, encodes, requests, alert, clicked >>

\* ------------------------------------------------------------------ App: uploads
setPhoto(s, photo) ==
  /\ childPhoto' = IF s = "child" THEN photo ELSE childPhoto
  /\ adultPhoto' = IF s = "adult" THEN photo ELSE adultPhoto

\* Mutant: both upload handlers report the child photo.
ReadErrorMessage_AlwaysChild(s) == "Failed to read child photo."

\* The message of the catch block of the upload handler of slot s.
ReadErrorMessage(s) ==
  IF s = "child" THEN "Failed to read child photo." ELSE "Failed to read adult photo."

\* handleChildPhotoUpload / handleAdultPhotoUpload resumed after the await:
\* the read succeeded and the slot is set.
handlePhotoUploadResolved ==
  \E e \in BagToSet(encodes) :
    /\ Idle
    /\ setPhoto(e.slot, fileToPhotoState(e.file))
    /\ encodes' = encodes (-) SetToBag({e})
    /\ UNCHANGED << generatedImage, isLoading, error, requests, alert, clicked >>
    /\ Remounted

\* The upload handler of pending read e resumed after the await: the read
\* failed (reader.onerror) and the catch sets the slot's message.
PhotoUploadRejectedOf(e) ==
  /\ Idle
  /\ error' = ReadErrorMessage(e.slot)
  /\ encodes' = encodes (-) SetToBag({e})
  /\ UNCHANGED << childPhoto, adultPhoto, generatedImage, isLoading,
                  requests, alert, clicked >>
  /\ Remounted

handlePhotoUploadRejected ==
  \E e \in BagToSet(encodes) : PhotoUploadRejectedOf(e)

\* ------------------------------------------------------------------ App: generation
\* Mutant: the result is labelled with another media type.
DataUrlPrefix_Png == "data:image/png;base64,"

\* The prefix handleGenerate puts before the service's base64 string.
DataUrlPrefix == "data:image/jpeg;base64,"

\* Mutant: handleGenerate without setError(null).
handleGenerate_KeepsError ==
  /\ Idle
  /\ GenerateClickable
  /\ IF childPhoto = NullPhoto \/ adultPhoto = NullPhoto
     THEN /\ error' = "Please upload both photos before generating."
          /\ UNCHANGED << generatedImage, isLoading, requests >>
     ELSE /\ Len(requests) < MaxRequests
          /\ isLoading' = TRUE
          /\ UNCHANGED error
          /\ generatedImage' = Null
          /\ requests' = Append(requests, [child |-> childPhoto, adult |-> adultPhoto])
  /\ UNCHANGED << childPhoto, adultPhoto, encodes, alert, clicked >>
  /\ Remounted

\* Mutant: handleGenerate without setIsLoading(true).
handleGenerate_NoLoading ==
  /\ Idle
  /\ GenerateClickable
  /\ IF childPhoto = NullPhoto \/ adultPhoto = NullPhoto
     THEN /\ error' = "Please upload both photos before generating."
          /\ UNCHANGED << generatedImage, isLoading, requests >>
     ELSE /\ Len(requests) < MaxRequests
          /\ UNCHANGED isLoading
          /\ error' = Null
          /\ generatedImage' = Null
          /\ requests' = Append(requests, [child |-> childPhoto, adult |-> adultPhoto])
  /\ UNCHANGED << childPhoto, adultPhoto, encodes, alert, clicked >>
  /\ Remounted

\* handleGenerate up to its await, run by a click on the generate button.
handleGenerate ==
  /\ Idle
  /\ GenerateClickable
  /\ IF childPhoto = NullPhoto \/ adultPhoto = NullPhoto
     THEN /\ error' = "Please upload both photos before generating."
          /\ UNCHANGED << generatedImage, isLoading, requests >>
     ELSE /\ Len(requests) < MaxRequests
          /\ isLoading' = TRUE
          /\ error' = Null
          /\ generatedImage' = Null
          /\ requests' = Append(requests, [child |-> childPhoto, adult |-> adultPhoto])
  /\ UNCHANGED << childPhoto, adultPhoto, encodes, alert, clicked >>
  /\ Remounted

\* Mutant: the success path without the finally block's setIsLoading(false).
GenerateResolvedWith_NoFinally(i, S) ==
  /\ Idle
  /\ generatedImage' = DataUrlPrefix \o S
  /\ UNCHANGED isLoading
  /\ requests' = Remove(requests, i)
  /\ UNCHANGED << childPhoto, adultPhoto, error, encodes, alert, clicked >>
  /\ Remounted

\* handleGenerate resumed: the request resolved with base64 string S.
GenerateResolvedWith(i, S) ==
  /\ Idle
  /\ generatedImage' = DataUrlPrefix \o S
  /\ isLoading' = FALSE
  /\ requests' = Remove(requests, i)
  /\ UNCHANGED << childPhoto, adultPhoto, error, encodes, alert, clicked >>
  /\ Remounted

handleGenerateResolved ==
  \E i \in 1..Len(requests), S \in Base64Results : GenerateResolvedWith(i, S)

\* Mutant: the instanceof test is inverted.
errorMessage_Inverted(err) ==
  IF ~err.isError THEN err.message ELSE "An unknown error occurred."

\* The message the catch block derives from the thrown value.
errorMessage(err) == IF err.isError THEN err.message ELSE "An unknown error occurred."

\* Mutant: the failure path without the finally block's setIsLoading(false).
GenerateRejectedWith_NoFinally(i, err) ==
  /\ Idle
  /\ error' = "Failed to generate image: " \o errorMessage(err)
  /\ UNCHANGED isLoading
  /\ requests' = Remove(requests, i)
  /\ UNCHANGED << childPhoto, adultPhoto, generatedImage, encodes, alert, clicked >>
  /\ Remounted

\* Mutant: the failure path also empties both photo slots.
GenerateRejectedWith_ClearsPhotos(i, err) ==
  /\ Idle
  /\ error' = "Failed to generate image: " \o errorMessage(err)
  /\ isLoading' = FALSE
  /\ requests' = Remove(requests, i)
  /\ childPhoto' = NullPhoto
  /\ adultPhoto' = NullPhoto
  /\ UNCHANGED << generatedImage, encodes, alert, clicked >>
  /\ Remounted

\* handleGenerate resumed: the request rejected with err.
GenerateRejectedWith(i, err) ==
  /\ Idle
  /\ error' = "Failed to generate image: " \o errorMessage(err)
  /\ isLoading' = FALSE
  /\ requests' = Remove(requests, i)
  /\ UNCHANGED << childPhoto, adultPhoto, generatedImage, encodes, alert, clicked >>
  /\ Remounted

handleGenerateRejected ==
  \E i \in 1..Len(requests), err \in Rejections : GenerateRejectedWith(i, err)

\* ------------------------------------------------------------------ App: result screen
\* Mutant: handleStartOver without setError(null).
handleStartOver_KeepsError ==
  /\ Idle
  /\ ResultShown
  /\ childPhoto' = NullPhoto
  /\ adultPhoto' = NullPhoto
  /\ generatedImage' = Null
  /\ UNCHANGED error
  /\ isLoading' = FALSE
  /\ UNCHANGED << encodes, requests, alert, clicked >>
  /\ Remounted

\* Create Another.
handleStartOver ==
  /\ Idle
  /\ ResultShown
  /\ childPhoto' = NullPhoto
  /\ adultPhoto' = NullPhoto
  /\ generatedImage' = Null
  /\ error' = Null
  /\ isLoading' = FALSE
  /\ UNCHANGED << encodes, requests, alert, clicked >>
  /\ Remounted

DownloadName == "rewindpix_reunion.jpeg"

\* Mutant: handleDownload drops the generated image after the click.
handleDownload_ClearsImage ==
  /\ Idle
  /\ ResultShown
  /\ IF ~Truthy(generatedImage)
     THEN UNCHANGED clicked
     ELSE clicked' = {[href |-> generatedImage, download |-> DownloadName]}
  /\ generatedImage' = Null
  /\ UNCHANGED << childPhoto, adultPhoto, isLoading, error, uploaderState,
                  encodes, requests, alert >>

\* Download Image.
handleDownload ==
  /\ Idle
  /\ ResultShown
  /\ IF ~Truthy(generatedImage)
     THEN UNCHANGED clicked
     ELSE clicked' = {[href |-> generatedImage, download |-> DownloadName]}
  /\ UNCHANGED << appState, uploaderState, encodes, requests, alert >>

\* link.click() returns: the browser has taken the link and saves href's
\* content under the download name; handleDownload removes the link.
BrowserSaves ==
  /\ clicked # {}
  /\ clicked' = {}
  /\ UNCHANGED << appState, uploaderState, encodes, requests, alert >>

\* ------------------------------------------------------------------ specification
Next ==
  \/ SubmitFile
  \/ DismissAlert
  \/ PreviewLoadEnd
  \/ handlePhotoUploadResolved
  \/ handlePhotoUploadRejected
  \/ handleGenerate
  \/ handleGenerateResolved
  \/ handleGenerateRejected
  \/ handleStartOver
  \/ handleDownload
  \/ BrowserSaves

Spec == Init /\ [][Next]_vars

\* The generation service eventually answers a pending request: the awaited
\* promise settles and handleGenerate resumes.
LiveSpec == Spec /\ WF_vars(handleGenerateResolved \/ handleGenerateRejected)

\* ------------------------------------------------------------------ properties
\* A photo slot is populated.
Present(photo) == photo # NullPhoto

\* String sub occurs in string s.
Contains(s, sub) ==
  \E i \in 1..(Len(s) - Len(sub) + 1) : SubSeq(s, i, i + Len(sub) - 1) = sub

\* C1: whenever childPhoto is absent, or adultPhoto is absent, or isLoading is
\* true, the generate trigger cannot fire; it can fire only with both slots
\* populated and isLoading false.
C1_GenerateDisabled ==
  (~Present(childPhoto) \/ ~Present(adultPhoto) \/ isLoading) => ~ENABLED handleGenerate

\* C1 witness: the button is rendered with one slot filled and one empty, and is
\* disabled.
C1_Witness ==
  /\ Present(childPhoto) /\ ~Present(adultPhoto) /\ ~isLoading
  /\ Idle /\ UploadScreenShown /\ ~ENABLED handleGenerate

\* C2: at most one generation request is in flight at any time.
C2_OneRequestInFlight == Len(requests) <= 1

\* C2 witness: a request is in flight.
C2_Witness == Len(requests) = 1 /\ isLoading

\* C3: isLoading and generatedImage are never both truthy.
C3_NotLoadingWithResult == ~(isLoading /\ Truthy(generatedImage))

\* C3 witness: loading, with no result held, while a read started before the
\* trigger is still pending.
C3_Witness == isLoading /\ generatedImage = Null /\ encodes # EmptyBag

\* Exactly one of the booleans of bs is true.
ExactlyOne(bs) == Cardinality({i \in 1..Len(bs) : bs[i]}) = 1

\* C4 as stated: exactly one of the upload screen, the loading indicator, the
\* error banner and the result screen is shown.
C4_Original ==
  ExactlyOne(<< UploadScreenShown, LoadingShown, ErrorBannerShown, ResultShown >>)

\* C4 amended: exactly one of the upload screen, the loading indicator and the
\* result screen is shown; the error banner is shown exactly when error is set,
\* alongside whichever of the three is active.
C4_OneScreen ==
  /\ ExactlyOne(<< UploadScreenShown, LoadingShown, ResultShown >>)
  /\ ErrorBannerShown <=> error # Null

\* C4 witness: the error banner is shown together with the upload screen.
C4_Witness == ErrorBannerShown /\ UploadScreenShown /\ ~LoadingShown /\ ~ResultShown

\* C5: a generate trigger with both slots filled sets isLoading, clears error
\* and generatedImage, and leaves both photo slots alone, all in the step that
\* issues the request (which is then still pending).
C5_TriggerStartsLoading ==
  [][ (handleGenerate /\ Present(childPhoto) /\ Present(adultPhoto))
        => /\ isLoading' = TRUE
           /\ error' = Null
           /\ generatedImage' = Null
           /\ childPhoto' = childPhoto
           /\ adultPhoto' = adultPhoto
           /\ Len(requests') = Len(requests) + 1 ]_vars

\* C5 witness: the state right after the trigger: loading, nothing shown of an
\* earlier attempt, the request pending with the photos of both slots.
C5_Witness ==
  /\ isLoading /\ error = Null /\ generatedImage = Null
  /\ requests = << [child |-> childPhoto, adult |-> adultPhoto] >>
  /\ Present(childPhoto) /\ Present(adultPhoto)

\* C6: when the request resolves with S, generatedImage becomes
\* "data:image/jpeg;base64," followed by S and isLoading becomes false, for
\* every S.
C6_SuccessStoresDataUrl ==
  [][ \A i \in 1..Len(requests), S \in Base64Results :
        GenerateResolvedWith(i, S)
          => /\ generatedImage' = "data:image/jpeg;base64," \o S
             /\ isLoading' = FALSE ]_vars

\* C6 witness: the result of the resolution with "abc123==".
C6_Witness == generatedImage = "data:image/jpeg;base64,abc123==" /\ ~isLoading

\* C7: when the request rejects with an Error of message M, error contains M,
\* isLoading is false and generatedImage is null, for every M.
C7_FailureStoresMessage ==
  [][ \A i \in 1..Len(requests), err \in {r \in Rejections : r.isError} :
        GenerateRejectedWith(i, err)
          => /\ Contains(error', err.message)
             /\ isLoading' = FALSE
             /\ generatedImage' = Null ]_vars

\* C7 witness: the state after a rejection with message "quota exceeded".
C7_Witness ==
  /\ error = "Failed to generate image: quota exceeded"
  /\ ~isLoading /\ generatedImage = Null

\* C8: start over yields the application's initial state, whatever the state
\* it is taken from: both slots, generatedImage and error null, isLoading false.
C8_StartOverResets ==
  [][ handleStartOver
        => /\ childPhoto' = NullPhoto
           /\ adultPhoto' = NullPhoto
           /\ generatedImage' = Null
           /\ error' = Null
           /\ isLoading' = FALSE ]_vars

\* C8 witness: the initial application state reached again by start over: the
\* uploaders are freshly mounted although a read started earlier is still
\* pending (only start over empties the slots once a file has been selected).
C8_Witness ==
  /\ childPhoto = NullPhoto /\ adultPhoto = NullPhoto /\ generatedImage = Null
  /\ error = Null /\ ~isLoading
  /\ fileName = InitialFileName /\ encodes # EmptyBag

\* C9: every request started eventually completes and every Loading state is
\* eventually followed by a state with isLoading false, given that the service
\* answers; and until the answer no step (no user action, no other
\* continuation) ends Loading or drops the request.
C9_LoadingEnds ==
  /\ isLoading ~> ~isLoading
  /\ (requests # << >>) ~> (requests = << >>)
  /\ [][ (isLoading /\ ~(handleGenerateResolved \/ handleGenerateRejected))
          => (isLoading' /\ requests' = requests) ]_vars

\* C9 witness: a request has completed with a failure: loading is over, no
\* request is pending, and the failure's message is shown.
C9_Witness ==
  /\ ~isLoading /\ requests = << >>
  /\ error = "Failed to generate image: An unknown error occurred."

\* C10: a submitted file whose declared type does not start with "image/"
\* raises the alert and changes nothing else: the uploaders' preview and
\* fileName, both slots, error, generatedImage and isLoading keep their
\* values, and no upload (encode or preview read) is started.
C10_NonImageRejected ==
  [][ \A s \in Slots, file \in {f \in Files : ~StartsWith(f.type, "image/")} :
        handleFileChange(s, file)
          => /\ alert' = "Please select a valid image file."
             /\ UNCHANGED << imagePreview, fileName, previews, encodes >>
             /\ UNCHANGED << childPhoto, adultPhoto, error, generatedImage, isLoading >>
             /\ UNCHANGED << requests, clicked >> ]_vars

\* C10 witness: the alert is open over an uploader that already shows a file.
C10_Witness ==
  /\ alert = "Please select a valid image file."
  /\ fileName["child"] = "child.png" /\ Present(childPhoto)


\* The media types the uploader announces: the file input's accept attribute
\* and the hint under the drop target (PNG, JPG, or WEBP).
AcceptedTypes == {"image/png", "image/jpeg", "image/webp"}

\* C11: every Photo held in a slot came from a submitted file, carries that
\* file's declared type as its mimeType, and that type is one of the accepted
\* set PNG, JPEG, WEBP.
C11_AcceptedMimeTypes ==
  \A photo \in {childPhoto, adultPhoto} :
    Present(photo)
      => /\ \E f \in Files : photo = fileToPhotoState(f) /\ photo.mimeType = f.type
         /\ photo.mimeType \in AcceptedTypes


\* C12: each of the three user actions clears a set error: the completion of a
\* successful (re-)upload of a photo, a retry of generation, and start over
\* all end with error null.
C12_UserActionsClearError ==
  [][ (error # Null /\ (handlePhotoUploadResolved \/ handleGenerate \/ handleStartOver))
        => error' = Null ]_vars


\* C13: the download action leaves childPhoto, adultPhoto, generatedImage,
\* isLoading and error (and everything else but the clicked link) unchanged; it
\* offers the current generatedImage under the fixed name rewindpix_reunion.jpeg,
\* and clicks no link when generatedImage is absent.
C13_DownloadKeepsState ==
  [][ handleDownload
        => /\ UNCHANGED << childPhoto, adultPhoto, generatedImage, isLoading, error >>
           /\ UNCHANGED << uploaderState, encodes, requests, alert >>
           /\ IF Truthy(generatedImage)
              THEN clicked' = {[href |-> generatedImage,
                                download |-> "rewindpix_reunion.jpeg"]}
              ELSE UNCHANGED clicked ]_vars

\* The link of a generated image has been clicked and the image is still held.
C13_Witness ==
  /\ generatedImage = "data:image/jpeg;base64,abc123=="
  /\ clicked = {[href |-> "data:image/jpeg;base64,abc123==",
                 download |-> "rewindpix_reunion.jpeg"]}
  /\ Present(childPhoto) /\ Present(adultPhoto)


\* C14: when the encode of a file for a slot fails, error becomes that slot's
\* own message ("Failed to read child photo." or "Failed to read adult photo.")
\* and childPhoto, adultPhoto, generatedImage and isLoading keep their values,
\* in whatever stage the failure arrives.
C14_EncodeFailureSetsSlotMessage ==
  [][ \A e \in BagToSet(encodes) :
        PhotoUploadRejectedOf(e)
          => /\ e.slot = "child" => error' = "Failed to read child photo."
             /\ e.slot = "adult" => error' = "Failed to read adult photo."
             /\ UNCHANGED << childPhoto, adultPhoto, generatedImage, isLoading >> ]_vars

\* The adult slot's read failed while a generation was loading: the message
\* is the adult one, the loading flag and both photos are as they were.
C14_Witness ==
  /\ error = "Failed to read adult photo."
  /\ isLoading
  /\ Present(childPhoto) /\ Present(adultPhoto)


\* C15: start over is available in every Error state (error set, isLoading
\* false) as in every Result state: whenever one of the two is on screen and
\* no dialog is open, handleStartOver can be taken.
C15_StartOverInErrorState ==
  (Idle /\ ~isLoading /\ (Truthy(error) \/ Truthy(generatedImage)))
    => ENABLED handleStartOver


\* C16: once both photo slots are empty and both uploaders are blank, as start
\* over leaves them, the slots stay empty until the user selects a new file:
\* no step taken from such a state fills a slot, so the completion of a read
\* begun before the start over never repopulates childPhoto or adultPhoto.
C16_NoStaleEncodeAfterStartOver ==
  [][ (~Present(childPhoto) /\ ~Present(adultPhoto) /\ fileName = InitialFileName)
        => (~Present(childPhoto') /\ ~Present(adultPhoto')) ]_vars


\* C17: when files were selected in succession for a slot and all their reads
\* have completed without a failure, the slot holds the Photo of the file
\* selected last (the one whose name the uploader shows), whatever order the
\* reads completed in.
C17_LastSelectedFileWins ==
  \A s \in Slots :
    \A f \in Files :
      ( /\ UploadScreenShown
        /\ fileName[s] = f.name
        /\ \A e \in BagToSet(encodes) : e.slot # s
        /\ error = Null )
        => (IF s = "child" THEN childPhoto ELSE adultPhoto) = fileToPhotoState(f)


\* C18: whenever the upload screen is shown and no encode or preview read is in
\* flight, each uploader shows a preview and a file name if and only if its
\* slot is populated. Stated for the case the claim singles out: the upload
\* screen has reappeared after a failed generation.
C18_UploaderAgreesWithSlot ==
  (UploadScreenShown /\ encodes = EmptyBag /\ previews = EmptyBag
     /\ Contains(error, "Failed to generate image: "))
    => \A s \in Slots :
         (imagePreview[s] # Null /\ fileName[s] # "")
           <=> Present(IF s = "child" THEN childPhoto ELSE adultPhoto)


\* C19: the completion of a generation request, success or failure, leaves
\* childPhoto and adultPhoto unchanged; after a failure with both slots filled
\* the generate button is rendered and enabled again, so generation can be
\* retried without uploading again.
C19_CompletionKeepsPhotos ==
  [][ /\ (handleGenerateResolved \/ handleGenerateRejected)
           => UNCHANGED << childPhoto, adultPhoto >>
      /\ (handleGenerateRejected /\ Present(childPhoto') /\ Present(adultPhoto'))
           => (GenerateClickable' /\ ~isGenerateDisabled' /\ Idle') ]_vars

\* A generation has failed, both photos are still held and the generate
\* button can be clicked again.
C19_Witness ==
  /\ error = "Failed to generate image: quota exceeded"
  /\ Present(childPhoto) /\ Present(adultPhoto)
  /\ requests = << >>
  /\ ENABLED handleGenerate

====
